---- MODULE Spec2Model ----
(***************************************************************************)
(* Model of the issue-resolver resolution pipeline:                        *)
(*   pipeline/orchestrator.py  run_pipeline                                *)
(*   pipeline/analyzer.py      analyze_issue, _extract_json                *)
(*   pipeline/resolver.py      resolve_issue, _run_tests                   *)
(*   claude/parser.py          parse_response                              *)
(*   claude/invoker.py         invoke                                      *)
(*   utils/subprocess_utils.py run_with_timeout, run_with_retry            *)
(* Money is counted in whole units, confidence in hundredths.             *)
(***************************************************************************)
EXTENDS Integers, Sequences, FiniteSets, TLC

\* ---------------------------------------------------------------- bounds
NumCandidates == 2
MaxCost == 1
MaxBudget == 1
MaxBaselineIds == 2
MaxTestIds == 6
MaxPipelineIds == 0
MaxRetries == 3
MaxMeter == 1
\* Issue objects built over a database's life, and the (owner, repo, number)
\* keys they name
MaxIssueObjects == 4
MaxKeys == 2
\* the limit of a scan, and the number of search results it goes through
MaxLimit == 2
MaxRawResults == 3

\* ------------------------------------------------------ program constants
NamedLimit == 5
ConfidenceThreshold == 70
DryRunConfidence == 75
PytestNoTestsCollected == 5
TimeoutReturnCode == 0 - 1

\* ------------------------------------------------------------------ enums
SolvabilityRating ==
    {"solvable", "likely_solvable", "unlikely_solvable", "unsolvable", "needs_context"}

AttemptStatus == {"pending", "in_progress", "succeeded", "failed"}

OutcomeCategory ==
    {"pr_submitted", "tests_failed", "empty_diff", "resolution_failed",
     "analysis_failed", "budget_exceeded", "timeout", "parse_error",
     "stale_issue", "untested"}

ClaudeOutcomes == {"success", "timeout", "process_error", "parse_error", "budget_exceeded"}

None == "None"
Absent == 0 - 1
ValueError == "ValueError"

Costs == 0..MaxCost
Budgets == 1..MaxBudget
BaselineIds == 1..MaxBaselineIds
TestIds == 1..MaxTestIds
PipelineIds == 1..MaxPipelineIds
ExitCodes == {0, 1, PytestNoTestsCollected}
Runners == {"pytest", "go"}
ConfValues == {Absent, 0, 69, 70, 100, 120}
RatingValues == SolvabilityRating \cup {"bogus", "absent"}
Meters == {Absent} \cup 0..MaxMeter
ProcessExitCodes == {0, 1, 2}

\* ----------------------------------------------------- agent invocation
\* The text the agent prints in its "result" field, as _extract_json sees it.
AnalysisBodies ==
    [kind : {"object", "fenced", "embedded", "prose"},
     rating : RatingValues,
     confidence : ConfValues]

NoBody == [kind |-> "prose", rating |-> "absent", confidence |-> Absent]

\* stdout of the agent CLI: not JSON at all, JSON that is no object, or an
\* object whose keys may be absent; meters are the values of duration_ms and
\* num_turns.
Stdouts(bodies, meters) ==
    [kind : {"empty", "text", "nonobject"}, is_error : {FALSE},
     cost_usd : {Absent}, total_cost_usd : {Absent},
     duration_ms : {Absent}, num_turns : {Absent}, result : {NoBody}]
    \cup
    [kind : {"object"}, is_error : BOOLEAN,
     cost_usd : Costs \cup {Absent}, total_cost_usd : Costs \cup {Absent},
     duration_ms : meters, num_turns : meters, result : bodies]

\* the stdouts the pipeline is run with: duration_ms and num_turns left out
StdoutsWith(bodies) == Stdouts(bodies, {Absent})

EmptyStdout ==
    [kind |-> "empty", is_error |-> FALSE, cost_usd |-> Absent,
     total_cost_usd |-> Absent, duration_ms |-> Absent, num_turns |-> Absent,
     result |-> NoBody]

\* invoke: (stdout, stderr, returncode, timeout_expired); a timeout is
\* reported as ("", ..., -1, True).
InvokeResults(bodies) ==
    [stdout : StdoutsWith(bodies), returncode : {0, 1}, timeout_expired : {FALSE}]
    \cup
    {[stdout |-> EmptyStdout, returncode |-> TimeoutReturnCode, timeout_expired |-> TRUE]}

ClaudeResult(outcome, result, cost, duration_ms, num_turns, is_error) ==
    [outcome |-> outcome, result_text |-> result, cost_usd |-> cost,
     duration_ms |-> duration_ms, num_turns |-> num_turns,
     is_error |-> is_error, raised |-> FALSE]

\* the result built for a timeout, a non-zero exit code or undecodable stdout
FailedResult(outcome) == ClaudeResult(outcome, NoBody, 0, 0, 0, TRUE)

\* json.loads succeeded but gave a list or scalar: data.get raises.
AttributeErrorResult ==
    [outcome |-> "AttributeError", result_text |-> NoBody, cost_usd |-> 0,
     duration_ms |-> 0, num_turns |-> 0, is_error |-> TRUE, raised |-> TRUE]

\* data.get(key, 0)
GetOrZero(value) == IF value = Absent THEN 0 ELSE value

\* variant: only the cost_usd key is read
NormalizeCost_NoFallback(data) ==
    IF data.cost_usd # Absent THEN data.cost_usd ELSE 0

NormalizeCost(data) ==
    IF data.cost_usd # Absent THEN data.cost_usd
    ELSE IF data.total_cost_usd # Absent THEN data.total_cost_usd
    ELSE 0

\* variant: an error result with no cost also counts as an exhausted budget
ClassifyTermination_CostIgnored(is_error, cost) ==
    IF is_error
    THEN IF cost >= 0 THEN "budget_exceeded" ELSE "process_error"
    ELSE "success"

ClassifyTermination(is_error, cost) ==
    IF is_error
    THEN IF cost > 0 THEN "budget_exceeded" ELSE "process_error"
    ELSE "success"

\* variant: the exit code is looked at before the timeout flag
parse_response_ExitCodeFirst(stdout, returncode, timeout_expired) ==
    IF returncode # 0 THEN FailedResult("process_error")
    ELSE IF timeout_expired THEN FailedResult("timeout")
    ELSE IF stdout.kind \in {"empty", "text"} THEN FailedResult("parse_error")
    ELSE IF stdout.kind = "nonobject" THEN AttributeErrorResult
    ELSE LET cost == NormalizeCost(stdout)
         IN ClaudeResult(ClassifyTermination(stdout.is_error, cost),
                         stdout.result, cost, GetOrZero(stdout.duration_ms),
                         GetOrZero(stdout.num_turns), stdout.is_error)

parse_response(stdout, returncode, timeout_expired) ==
    IF timeout_expired THEN FailedResult("timeout")
    ELSE IF returncode # 0 THEN FailedResult("process_error")
    ELSE IF stdout.kind \in {"empty", "text"} THEN FailedResult("parse_error")
    ELSE IF stdout.kind = "nonobject" THEN AttributeErrorResult
    ELSE LET cost == NormalizeCost(stdout)
         IN ClaudeResult(ClassifyTermination(stdout.is_error, cost),
                         stdout.result, cost, GetOrZero(stdout.duration_ms),
                         GetOrZero(stdout.num_turns), stdout.is_error)

\* ----------------------------------------------------- invocation layer
Completed == "completed"
TimedOutFlag == "timed_out_flag"
TimeoutExpired == "TimeoutExpired"

\* run_with_timeout as its caller sees it: the CompletedProcess comes back,
\* or subprocess.run's TimeoutExpired propagates
run_with_timeout(timed_out) == IF timed_out THEN TimeoutExpired ELSE Completed

\* invoke as its caller sees it: TimeoutExpired is caught and turned into
\* the fourth element of the returned tuple
invoke(timed_out) ==
    IF run_with_timeout(timed_out) = TimeoutExpired THEN TimedOutFlag ELSE Completed

\* what one execution of the command inside run_with_retry gives: a
\* CompletedProcess (rate_limited: stderr contains the rate-limit pattern),
\* or a timeout
CompletedProcesses ==
    [timed_out : {FALSE}, returncode : ProcessExitCodes, rate_limited : BOOLEAN]

TimedOutProcess == [timed_out |-> TRUE, returncode |-> Absent, rate_limited |-> FALSE]

Executions == CompletedProcesses \cup {TimedOutProcess}

\* last_result = None
NoProcess == [timed_out |-> FALSE, returncode |-> Absent, rate_limited |-> FALSE]

\* variant: every failed execution is retried while retries remain
ShouldRetry_AnyFailure(result, attempt_no, retries) == attempt_no < retries

\* the rate-limit test of run_with_retry, reached with a non-zero exit code
ShouldRetry(result, attempt_no, retries) ==
    result.rate_limited /\ attempt_no < retries

\* ------------------------------------------------------------- analysis
NoAnalysis == [rating |-> None, confidence |-> 0, cost_usd |-> 0]

\* None is modelled as a body of kind "None"
NoJson == [kind |-> "None", rating |-> "absent", confidence |-> Absent]

\* variant: text without a JSON object is handed on as if it were one
_extract_json_Lenient(text) ==
    IF text.kind \in {"object", "fenced", "embedded", "prose"} THEN text ELSE NoJson

_extract_json(text) ==
    IF text.kind \in {"object", "fenced", "embedded"} THEN text ELSE NoJson

\* variant: a confidence equal to the threshold is rejected
passes_threshold_Strict(a) ==
    /\ a.rating \in {"solvable", "likely_solvable"}
    /\ a.confidence > ConfidenceThreshold

passes_threshold(a) ==
    /\ a.rating \in {"solvable", "likely_solvable"}
    /\ a.confidence >= ConfidenceThreshold

\* analyze_issue outside dry-run, given the parsed agent result: what it
\* returns or raises, the Analysis it built and whether it was persisted.
AnalyzeResult(cr) ==
    IF cr.raised
    THEN [ret |-> "exception", analysis |-> NoAnalysis, persisted |-> FALSE]
    ELSE IF cr.outcome # "success"
    THEN [ret |-> "ClaudeError", persisted |-> TRUE,
          analysis |-> [rating |-> "unsolvable", confidence |-> 0, cost_usd |-> cr.cost_usd]]
    ELSE LET data == _extract_json(cr.result_text) IN
         IF data = NoJson
         THEN [ret |-> "ClaudeError", persisted |-> TRUE,
               analysis |-> [rating |-> "unsolvable", confidence |-> 0, cost_usd |-> cr.cost_usd]]
         ELSE LET rating == IF data.rating = "absent" THEN "unsolvable" ELSE data.rating
                  confidence == IF data.confidence = Absent THEN 0 ELSE data.confidence
                  a == [rating |-> rating, confidence |-> confidence, cost_usd |-> cr.cost_usd]
              IN IF rating \notin SolvabilityRating \/ confidence > 100
                 THEN [ret |-> "exception", analysis |-> NoAnalysis, persisted |-> FALSE]
                 ELSE IF ~passes_threshold(a)
                 THEN [ret |-> "AnalysisRejectedError", analysis |-> a, persisted |-> TRUE]
                 ELSE [ret |-> "ok", analysis |-> a, persisted |-> TRUE]

\* what analyze_issue saw of the agent: claude_result.outcome (the
\* exception's name when parse_response raised) and whether the result
\* text holds a JSON object (bare, in a code fence or inside prose)
AgentSeen(cr) ==
    [outcome |-> cr.outcome,
     json |-> ~cr.raised /\ cr.result_text.kind \in {"object", "fenced", "embedded"}]

\* analyze_issue outside dry-run on one raw invocation result
AnalyzeCall(raw) ==
    LET cr == parse_response(raw.stdout, raw.returncode, raw.timeout_expired)
    IN [result |-> AnalyzeResult(cr), seen |-> AgentSeen(cr)]

\* no agent invocation (dry-run, or no analysis under way)
NoAgent == [outcome |-> None, json |-> FALSE]

DryRunAnalysis ==
    [ret |-> "ok", persisted |-> TRUE,
     analysis |-> [rating |-> "likely_solvable", confidence |-> DryRunConfidence,
                   cost_usd |-> 0]]

\* -------------------------------------------------------------- attempt
\* variant: the Attempt is inserted with the model's default status
NewAttempt_Pending == [status |-> "pending", outcome |-> None, cost_usd |-> Absent]

NewAttempt == [status |-> "in_progress", outcome |-> None, cost_usd |-> Absent]

NoAttempt == [status |-> None, outcome |-> None, cost_usd |-> Absent]

Terminal(att, status, outcome) == [att EXCEPT !.status = status, !.outcome = outcome]

\* variant: the handler records the outcome but leaves the Attempt open
ExceptHandler_LeftOpen(att) == [att EXCEPT !.outcome = "resolution_failed"]

\* variant: the handler forgets what the agent call cost
ExceptHandler_CostCleared(att) == [Terminal(att, "failed", "resolution_failed") EXCEPT !.cost_usd = Absent]

\* variant: the handler lets the Attempt pass as unverified
ExceptHandler_Untested(att) == Terminal(att, "succeeded", "untested")

\* variant: the handler marks the Attempt failed but records no outcome
ExceptHandler_StatusOnly(att) == [att EXCEPT !.status = "failed"]

\* the generic `except Exception` handler of resolve_issue
ExceptHandler(att) == Terminal(att, "failed", "resolution_failed")

\* OutcomeCategory(value): StrEnum lookup by value
OutcomeCategoryOf(value) == IF value \in OutcomeCategory THEN value ELSE ValueError

\* variant: the message names every new failure
FirstNamed_All(S) == S

\* sorted(new_failures)[:5]
FirstNamed(S) == {x \in S : Cardinality({y \in S : y < x}) < NamedLimit}

\* post-fix verdict of resolve_issue step 7 when a test runner exists
Verdict(status, outcome, raises, named) ==
    [status |-> status, outcome |-> outcome, raises |-> raises, named |-> named]

\* variant: a passing post-fix run is accepted only after a passing baseline
PostTestVerdict_BaselineFirst(runner, post_rc, post_fail, base_rc, base_fail) ==
    IF post_rc = 0 /\ base_rc = 0
    THEN Verdict("succeeded", "pr_submitted", FALSE, {})
    ELSE IF runner = "pytest" /\ post_rc = PytestNoTestsCollected
    THEN Verdict("succeeded", "untested", FALSE, {})
    ELSE LET new_failures == post_fail \ base_fail IN
         IF new_failures # {}
         THEN Verdict("failed", "tests_failed", TRUE, FirstNamed(new_failures))
         ELSE IF post_fail = {} /\ base_rc # 0
         THEN Verdict("succeeded", "pr_submitted", FALSE, {})
         ELSE IF post_fail # {} /\ post_fail \subseteq base_fail
         THEN Verdict("succeeded", "pr_submitted", FALSE, {})
         ELSE Verdict("failed", "tests_failed", TRUE, {})

\* variant: pre-existing failures are accepted only when the failing set is unchanged
PostTestVerdict_EqualOnly(runner, post_rc, post_fail, base_rc, base_fail) ==
    IF post_rc = 0
    THEN Verdict("succeeded", "pr_submitted", FALSE, {})
    ELSE IF runner = "pytest" /\ post_rc = PytestNoTestsCollected
    THEN Verdict("succeeded", "untested", FALSE, {})
    ELSE LET new_failures == post_fail \ base_fail IN
         IF new_failures # {}
         THEN Verdict("failed", "tests_failed", TRUE, FirstNamed(new_failures))
         ELSE IF post_fail = {} /\ base_rc # 0
         THEN Verdict("succeeded", "pr_submitted", FALSE, {})
         ELSE IF post_fail # {} /\ post_fail = base_fail
         THEN Verdict("succeeded", "pr_submitted", FALSE, {})
         ELSE Verdict("failed", "tests_failed", TRUE, {})

\* variant: an unparsable post-fix run is accepted only when its exit code
\* equals the baseline's
PostTestVerdict_SameCode(runner, post_rc, post_fail, base_rc, base_fail) ==
    IF post_rc = 0
    THEN Verdict("succeeded", "pr_submitted", FALSE, {})
    ELSE IF runner = "pytest" /\ post_rc = PytestNoTestsCollected
    THEN Verdict("succeeded", "untested", FALSE, {})
    ELSE LET new_failures == post_fail \ base_fail IN
         IF new_failures # {}
         THEN Verdict("failed", "tests_failed", TRUE, FirstNamed(new_failures))
         ELSE IF post_fail = {} /\ base_rc = post_rc
         THEN Verdict("succeeded", "pr_submitted", FALSE, {})
         ELSE IF post_fail # {} /\ post_fail \subseteq base_fail
         THEN Verdict("succeeded", "pr_submitted", FALSE, {})
         ELSE Verdict("failed", "tests_failed", TRUE, {})

PostTestVerdict(runner, post_rc, post_fail, base_rc, base_fail) ==
    IF post_rc = 0
    THEN Verdict("succeeded", "pr_submitted", FALSE, {})
    ELSE IF runner = "pytest" /\ post_rc = PytestNoTestsCollected
    THEN Verdict("succeeded", "untested", FALSE, {})
    ELSE LET new_failures == post_fail \ base_fail IN
         IF new_failures # {}
         THEN Verdict("failed", "tests_failed", TRUE, FirstNamed(new_failures))
         ELSE IF post_fail = {} /\ base_rc # 0
         THEN Verdict("succeeded", "pr_submitted", FALSE, {})
         ELSE IF post_fail # {} /\ post_fail \subseteq base_fail
         THEN Verdict("succeeded", "pr_submitted", FALSE, {})
         ELSE Verdict("failed", "tests_failed", TRUE, {})

\* variant: without a test suite the Attempt is marked failed
NoTestSuite_Failed(att) == Terminal(att, "failed", "untested")

\* variant: without a test suite the Attempt counts as verified
NoTestSuite_Submitted(att) == Terminal(att, "succeeded", "pr_submitted")

\* step 7 when no test runner was detected
NoTestSuite(att) == Terminal(att, "succeeded", "untested")

\* variant: an exhausted budget is recorded like any other resolution failure
AgentFailureAttempt_BudgetUnmarked(att, outcome) ==
    IF outcome = "timeout" THEN Terminal(att, "failed", "timeout")
    ELSE IF outcome = "budget_exceeded" THEN Terminal(att, "failed", "resolution_failed")
    ELSE IF OutcomeCategoryOf(outcome) = ValueError
    THEN ExceptHandler([att EXCEPT !.status = "failed"])
    ELSE Terminal(att, "failed", OutcomeCategoryOf(outcome))

\* variant: a timed-out agent run is recorded as a generic resolution failure
AgentFailureAttempt_TimeoutUnmarked(att, outcome) ==
    IF outcome = "timeout" THEN Terminal(att, "failed", "resolution_failed")
    ELSE IF outcome = "budget_exceeded" THEN Terminal(att, "failed", "budget_exceeded")
    ELSE IF OutcomeCategoryOf(outcome) = ValueError
    THEN ExceptHandler([att EXCEPT !.status = "failed"])
    ELSE Terminal(att, "failed", OutcomeCategoryOf(outcome))

\* how resolve_issue closes the Attempt after a failed agent run
\* (outcome timeout, budget_exceeded, process_error or parse_error)
AgentFailureAttempt(att, outcome) ==
    IF outcome = "timeout" THEN Terminal(att, "failed", "timeout")
    ELSE IF outcome = "budget_exceeded" THEN Terminal(att, "failed", "budget_exceeded")
    ELSE IF OutcomeCategoryOf(outcome) = ValueError
    THEN ExceptHandler([att EXCEPT !.status = "failed"])
    ELSE Terminal(att, "failed", OutcomeCategoryOf(outcome))

\* ---------------------------------------------------------------- state
VARIABLES
    pc,                 \* position in run_pipeline / resolve_issue
    n,                  \* len(candidates)
    idx,                \* 1-based index of the candidate being processed
    dry_run,
    session_budget,
    summary,            \* PipelineResult counters
    results,            \* PipelineResult.results, by status
    analyze_calls,      \* candidates analyze_issue was invoked for
    resolve_calls,      \* candidates resolve_issue was invoked for
    submit_calls,       \* candidates submit_pr was invoked for
    aret,               \* how analyze_issue ended
    analysis,
    attempt,            \* the in-memory Attempt of resolve_issue
    persisted,          \* successive persisted versions of that Attempt
    calls,              \* external operations made by this resolve_issue call
    test_runner,
    baseline_returncode,
    baseline_failures,
    claude_outcome,
    has_changes,        \* what has_changes(workspace_path) returned
    post_returncode,
    post_failures,
    rret,               \* how resolve_issue ended
    err_named,          \* identifiers named in the TestsFailedError message
    inserted,           \* insert_analysis was called by this analyze_issue call
    a_claude,           \* analyze_issue: the parsed agent outcome, and whether
                        \* the result text held a JSON object
    pr_urls,            \* candidates whose submit_pr call returned a PR URL
    issues,             \* rows of the issues table
    children,           \* issue ids referenced by analyses and attempts rows
    db_ret,             \* the last repository operation and how it ended
    offered,            \* keys of the candidates returned by the scans so far
    scan_ret,           \* the last scan_issues call: its limit and candidates
    layer_report,       \* how resolve_issue's last subprocess call came back
    p_in,               \* arguments of a parse_response call
    p_out,              \* what that call returned or raised
    max_retries,        \* run_with_retry: argument
    retry_attempt,      \* run_with_retry: the loop variable `attempt`
    history,            \* run_with_retry: results of the executions so far
    retry_ret           \* run_with_retry: the result returned

ovars == <<n, idx, dry_run, session_budget, summary, results,
           analyze_calls, resolve_calls, submit_calls, pr_urls>>
avars == <<aret, analysis, inserted, a_claude>>
rlocals == <<test_runner, baseline_returncode, baseline_failures, claude_outcome,
             has_changes, post_returncode, post_failures, layer_report>>
rvars == <<attempt, persisted, calls, rret, err_named>>
dvars == <<issues, children, db_ret, offered, scan_ret>>
lvars == <<p_in, p_out, max_retries, retry_attempt, history, retry_ret, dvars>>
vars == <<pc, ovars, avars, rlocals, rvars, lvars>>

\* no parse_response call and no run_with_retry call under way
NoCall == [stdout |-> EmptyStdout, returncode |-> 0, timeout_expired |-> FALSE]

NoParse == FailedResult(None)

\* an empty database, no repository operation made
NoDbOp == [op |-> None, key |-> 0, was_stored |-> FALSE, raised |-> FALSE]

\* no scan_issues call made
NoScan == [limit |-> 0, candidates |-> <<>>]

DbIdle ==
    /\ issues = {}
    /\ children = {}
    /\ db_ret = NoDbOp
    /\ offered = <<>>
    /\ scan_ret = NoScan

LayerIdle ==
    /\ p_in = NoCall
    /\ p_out = NoParse
    /\ max_retries = 0
    /\ retry_attempt = 0
    /\ history = <<>>
    /\ retry_ret = NoProcess
    /\ DbIdle

PipelineResult ==
    [issues_scanned |-> 0, issues_analyzed |-> 0, issues_attempted |-> 0,
     prs_submitted |-> 0, failures |-> 0, total_cost_usd |-> 0,
     budget_exhausted |-> FALSE]

ResolverLocalsCleared ==
    /\ test_runner' = None
    /\ baseline_returncode' = 0
    /\ baseline_failures' = {}
    /\ claude_outcome' = None
    /\ has_changes' = None
    /\ post_returncode' = 0
    /\ post_failures' = {}
    /\ layer_report' = None

Init ==
    /\ pc = "scan"
    /\ n = 0
    /\ idx = 1
    /\ dry_run \in BOOLEAN
    /\ session_budget \in Budgets
    /\ summary = PipelineResult
    /\ results = <<>>
    /\ analyze_calls = {}
    /\ resolve_calls = {}
    /\ submit_calls = {}
    /\ pr_urls = {}
    /\ aret = None
    /\ analysis = NoAnalysis
    /\ attempt = NoAttempt
    /\ persisted = <<>>
    /\ calls = <<>>
    /\ test_runner = None
    /\ baseline_returncode = 0
    /\ baseline_failures = {}
    /\ claude_outcome = None
    /\ has_changes = None
    /\ post_returncode = 0
    /\ post_failures = {}
    /\ rret = None
    /\ err_named = {}
    /\ inserted = FALSE
    /\ a_claude = NoAgent
    /\ layer_report = None
    /\ LayerIdle

\* ---------------------------------------------------------- run_pipeline
\* variant: the candidates found are not counted
Scan_Uncounted ==
    /\ pc = "scan"
    /\ \E k \in 0..NumCandidates :
        /\ n' = k
        /\ summary' = summary
        /\ pc' = IF k = 0 THEN "done" ELSE "gate"
    /\ UNCHANGED <<idx, dry_run, session_budget, results, analyze_calls,
                   resolve_calls, submit_calls, pr_urls, avars, rlocals, rvars>>
    /\ UNCHANGED lvars

Scan ==
    /\ pc = "scan"
    /\ \E k \in 0..NumCandidates :
        /\ n' = k
        /\ summary' = [summary EXCEPT !.issues_scanned = k]
        /\ pc' = IF k = 0 THEN "done" ELSE "gate"
    /\ UNCHANGED <<idx, dry_run, session_budget, results, analyze_calls,
                   resolve_calls, submit_calls, pr_urls, avars, rlocals, rvars>>
    /\ UNCHANGED lvars

\* variant: the gate only stops once the budget is overdrawn
BudgetGateStops_Strict(budget, total_cost_usd) == budget - total_cost_usd < 0

BudgetGateStops(budget, total_cost_usd) == budget - total_cost_usd <= 0

\* top of the for loop: end of the candidate list, or the budget gate
BudgetGate ==
    /\ pc = "gate"
    /\ IF idx > n
       THEN /\ pc' = "done"
            /\ summary' = summary
       ELSE IF BudgetGateStops(session_budget, summary.total_cost_usd)
       THEN /\ summary' = [summary EXCEPT !.budget_exhausted = TRUE]
            /\ pc' = "done"
       ELSE /\ summary' = summary
            /\ pc' = "analyze"
    /\ UNCHANGED <<n, idx, dry_run, session_budget, results, analyze_calls,
                   resolve_calls, submit_calls, pr_urls, avars, rlocals, rvars>>
    /\ UNCHANGED lvars

AnalyzeIssue ==
    /\ pc = "analyze"
    /\ analyze_calls' = analyze_calls \cup {idx}
    /\ IF dry_run
       THEN /\ aret' = DryRunAnalysis.ret
            /\ analysis' = DryRunAnalysis.analysis
            /\ inserted' = DryRunAnalysis.persisted
            /\ a_claude' = NoAgent
       ELSE \E r \in {AnalyzeCall(raw) : raw \in InvokeResults(AnalysisBodies)} :
            /\ aret' = r.result.ret
            /\ analysis' = r.result.analysis
            /\ inserted' = r.result.persisted
            /\ a_claude' = r.seen
    /\ pc' = "analyzed"
    /\ UNCHANGED <<n, idx, dry_run, session_budget, summary, results,
                   resolve_calls, submit_calls, pr_urls, rlocals, rvars>>
    /\ UNCHANGED lvars

\* the try/except around analyze_issue: returns the next position, or
\* "crashed" when the exception is not caught by run_pipeline
\* variant: an analysis that failed with an agent error is resolved anyway
AnalysisRoute_ErrorsResolved(ret) ==
    IF ret \in {"ok", "ClaudeError"} THEN "r_start"
    ELSE IF ret = "AnalysisRejectedError" THEN "gate"
    ELSE "crashed"

\* variant: a rejected analysis ends the run
AnalysisRoute_RejectedStops(ret) ==
    IF ret = "ok" THEN "r_start"
    ELSE IF ret = "ClaudeError" THEN "gate"
    ELSE IF ret = "AnalysisRejectedError" THEN "done"
    ELSE "crashed"

AnalysisRoute(ret) ==
    IF ret = "ok" THEN "r_start"
    ELSE IF ret \in {"AnalysisRejectedError", "ClaudeError"} THEN "gate"
    ELSE "crashed"

\* variant: the budget gate is evaluated again once the analysis is paid for
HandleAnalysis_GateAgain ==
    /\ pc = "analyzed"
    /\ pc' = IF aret = "ok" /\ BudgetGateStops(session_budget, summary.total_cost_usd + analysis.cost_usd)
             THEN "done" ELSE AnalysisRoute(aret)
    /\ IF aret = "ok"
       THEN /\ summary' = [summary EXCEPT
                             !.issues_analyzed = @ + 1,
                             !.total_cost_usd = @ + analysis.cost_usd,
                             !.budget_exhausted =
                                 BudgetGateStops(session_budget,
                                                 summary.total_cost_usd + analysis.cost_usd)]
            /\ UNCHANGED <<results, idx, avars>>
       ELSE IF aret = "AnalysisRejectedError"
       THEN /\ results' = Append(results, "rejected")
            /\ idx' = idx + 1
            /\ aret' = None /\ analysis' = NoAnalysis /\ inserted' = FALSE
            /\ a_claude' = NoAgent
            /\ UNCHANGED summary
       ELSE IF aret = "ClaudeError"
       THEN /\ results' = Append(results, "analysis_failed")
            /\ summary' = [summary EXCEPT !.failures = @ + 1]
            /\ idx' = idx + 1
            /\ aret' = None /\ analysis' = NoAnalysis /\ inserted' = FALSE
            /\ a_claude' = NoAgent
       ELSE UNCHANGED <<summary, results, idx, avars>>
    /\ UNCHANGED <<n, dry_run, session_budget, analyze_calls, resolve_calls,
                   submit_calls, pr_urls, rlocals, rvars>>
    /\ UNCHANGED lvars

HandleAnalysis ==
    /\ pc = "analyzed"
    /\ pc' = AnalysisRoute(aret)
    /\ IF aret = "ok"
       THEN /\ summary' = [summary EXCEPT
                             !.issues_analyzed = @ + 1,
                             !.total_cost_usd = @ + analysis.cost_usd]
            /\ UNCHANGED <<results, idx, avars>>
       ELSE IF aret = "AnalysisRejectedError"
       THEN /\ results' = Append(results, "rejected")
            /\ idx' = idx + 1
            /\ aret' = None /\ analysis' = NoAnalysis /\ inserted' = FALSE
            /\ a_claude' = NoAgent
            /\ UNCHANGED summary
       ELSE IF aret = "ClaudeError"
       THEN /\ results' = Append(results, "analysis_failed")
            /\ summary' = [summary EXCEPT !.failures = @ + 1]
            /\ idx' = idx + 1
            /\ aret' = None /\ analysis' = NoAnalysis /\ inserted' = FALSE
            /\ a_claude' = NoAgent
       ELSE UNCHANGED <<summary, results, idx, avars>>
    /\ UNCHANGED <<n, dry_run, session_budget, analyze_calls, resolve_calls,
                   submit_calls, pr_urls, rlocals, rvars>>
    /\ UNCHANGED lvars

\* ---------------------------------------------------------- resolve_issue
\* resolve_issue returning the Attempt or raising, having persisted it
ResolveEnds(att, how) ==
    /\ attempt' = att
    /\ persisted' = Append(persisted, att)
    /\ rret' = how
    /\ pc' = "resolved"

\* variant: a dry run goes through the real resolution steps
ResolveStart_DryRunIgnored ==
    /\ pc = "r_start"
    /\ resolve_calls' = resolve_calls \cup {idx}
    /\ attempt' = NewAttempt
    /\ persisted' = <<NewAttempt>>
    /\ calls' = <<>>
    /\ pc' = "r_setup"
    /\ UNCHANGED <<n, idx, dry_run, session_budget, summary, results,
                   analyze_calls, submit_calls, pr_urls, avars, rlocals, rret, err_named>>
    /\ UNCHANGED lvars

ResolveStart ==
    /\ pc = "r_start"
    /\ resolve_calls' = resolve_calls \cup {idx}
    /\ attempt' = NewAttempt
    /\ persisted' = <<NewAttempt>>
    /\ calls' = <<>>
    /\ pc' = IF dry_run THEN "r_dry" ELSE "r_setup"
    /\ UNCHANGED <<n, idx, dry_run, session_budget, summary, results,
                   analyze_calls, submit_calls, pr_urls, avars, rlocals, rret, err_named>>
    /\ UNCHANGED lvars

DryRunAttempt(att) ==
    [Terminal(att, "succeeded", "pr_submitted") EXCEPT !.cost_usd = 0]

ResolveDryRun ==
    /\ pc = "r_dry"
    /\ ResolveEnds(DryRunAttempt(attempt), "attempt")
    /\ UNCHANGED <<ovars, avars, rlocals, calls, err_named>>
    /\ UNCHANGED lvars

SetupSteps == <<"fork", "workspace", "clone", "branch", "install">>

\* the external operations of steps 1-2 up to and including the one that fails
SetupCalls(fail, installer) ==
    IF fail = "fork" THEN <<"fork">>
    ELSE IF fail = "workspace" THEN <<"fork", "workspace">>
    ELSE IF fail = "clone" THEN <<"fork", "workspace", "clone">>
    ELSE IF fail = "branch" \/ ~installer THEN <<"fork", "workspace", "clone", "branch">>
    ELSE SetupSteps

\* how the last subprocess call of steps 1-2 came back: the step that fails
\* either exits non-zero (its caller raises GitHubError) or times out; a
\* failing install is a timeout, since its exit code is ignored
SetupReports(fail) ==
    IF fail \in {"none", "workspace"} THEN {Completed}
    ELSE IF fail = "install" THEN {TimeoutExpired}
    ELSE {Completed, TimeoutExpired}

\* steps 1-3: fork, workspace, clone, branch, install, test runner detection
ResolveSetup ==
    /\ pc = "r_setup"
    /\ \E installer \in BOOLEAN,
          fail \in {"none", "fork", "workspace", "clone", "branch", "install"},
          runner \in Runners \cup {None} :
        /\ (fail = "install") => installer
        /\ (fail # "none") => runner = None
        /\ calls' = SetupCalls(fail, installer)
        /\ layer_report' \in SetupReports(fail)
        /\ IF fail \in {"fork", "workspace"}
           THEN /\ ResolveEnds(ExceptHandler(attempt), "attempt")
                /\ UNCHANGED test_runner
           ELSE IF fail # "none"
           THEN /\ attempt' = ExceptHandler(attempt)
                /\ persisted' = persisted \o <<attempt, ExceptHandler(attempt)>>
                /\ rret' = "attempt"
                /\ pc' = "resolved"
                /\ UNCHANGED test_runner
           ELSE /\ persisted' = Append(persisted, attempt)
                /\ test_runner' = runner
                /\ pc' = "r_baseline"
                /\ UNCHANGED <<attempt, rret>>
    /\ UNCHANGED <<ovars, avars, baseline_returncode, baseline_failures,
                   claude_outcome, has_changes, post_returncode, post_failures,
                   err_named>>
    /\ UNCHANGED lvars

\* _run_tests: (returncode, failed ids), or TimeoutExpired raised by run_with_timeout
TestRuns(ids) ==
    [timed_out : {FALSE}, returncode : ExitCodes, failed : SUBSET ids]
    \cup {[timed_out |-> TRUE, returncode |-> 0, failed |-> {}]}

\* step 4: baseline test run, its failing identifiers drawn from ids
RunBaseline(ids) ==
    /\ pc = "r_baseline"
    /\ IF test_runner = None
       THEN /\ pc' = "r_invoke"
            /\ UNCHANGED <<baseline_returncode, baseline_failures, rvars, layer_report>>
       ELSE \E t \in TestRuns(ids) :
            /\ calls' = Append(calls, "test")
            /\ layer_report' = run_with_timeout(t.timed_out)
            /\ IF t.timed_out
               THEN /\ ResolveEnds(ExceptHandler(attempt), "attempt")
                    /\ UNCHANGED <<baseline_returncode, baseline_failures>>
               ELSE /\ baseline_returncode' = t.returncode
                    /\ baseline_failures' = t.failed
                    /\ pc' = "r_invoke"
                    /\ UNCHANGED <<attempt, persisted, rret>>
            /\ UNCHANGED err_named
    /\ UNCHANGED <<ovars, avars, test_runner, claude_outcome, has_changes,
                   post_returncode, post_failures>>
    /\ UNCHANGED lvars

ResolveBaseline == RunBaseline(BaselineIds)

PipelineBaseline == RunBaseline(PipelineIds)

\* step 5: agent invocation, parse_response and the agent-failure exits
ResolveInvoke ==
    /\ pc = "r_invoke"
    /\ calls' = Append(calls, "agent")
    /\ \E raw \in InvokeResults({NoBody}) :
        LET cr == parse_response(raw.stdout, raw.returncode, raw.timeout_expired)
            att == [attempt EXCEPT !.cost_usd = cr.cost_usd]
        IN /\ claude_outcome' = cr.outcome
           /\ layer_report' = invoke(raw.timeout_expired)
           /\ IF cr.raised
              THEN ResolveEnds(ExceptHandler(attempt), "attempt")
              ELSE IF cr.outcome = "success"
              THEN /\ attempt' = att
                   /\ pc' = "r_diff"
                   /\ UNCHANGED <<persisted, rret>>
              ELSE ResolveEnds(AgentFailureAttempt(att, cr.outcome),
                               IF cr.outcome = "budget_exceeded"
                               THEN "BudgetExceededError" ELSE "attempt")
    /\ UNCHANGED <<ovars, avars, test_runner, baseline_returncode, baseline_failures,
                   has_changes, post_returncode, post_failures, err_named>>
    /\ UNCHANGED lvars

\* variant: the diff is inspected but an empty diff does not stop the resolution
ResolveDiff_Unchecked ==
    /\ pc = "r_diff"
    /\ \E r \in {"changes", "no_changes", "timeout"} :
        /\ has_changes' = IF r = "timeout" THEN None ELSE r
        /\ layer_report' = run_with_timeout(r = "timeout")
        /\ IF r # "timeout"
           THEN /\ calls' = calls \o <<"has_changes", "get_diff_summary">>
                /\ pc' = "r_post"
                /\ UNCHANGED <<attempt, persisted, rret>>
           ELSE /\ calls' = Append(calls, "has_changes")
                /\ ResolveEnds(ExceptHandler(attempt), "attempt")
    /\ UNCHANGED <<ovars, avars, test_runner, baseline_returncode, baseline_failures,
                   claude_outcome, post_returncode, post_failures, err_named>>
    /\ UNCHANGED lvars

\* step 6: has_changes / get_diff_summary
ResolveDiff ==
    /\ pc = "r_diff"
    /\ \E r \in {"changes", "no_changes", "timeout"} :
        /\ has_changes' = IF r = "timeout" THEN None ELSE r
        /\ layer_report' = run_with_timeout(r = "timeout")
        /\ IF r = "changes"
           THEN /\ calls' = calls \o <<"has_changes", "get_diff_summary">>
                /\ pc' = "r_post"
                /\ UNCHANGED <<attempt, persisted, rret>>
           ELSE /\ calls' = Append(calls, "has_changes")
                /\ ResolveEnds(IF r = "no_changes"
                               THEN Terminal(attempt, "failed", "empty_diff")
                               ELSE ExceptHandler(attempt), "attempt")
    /\ UNCHANGED <<ovars, avars, test_runner, baseline_returncode, baseline_failures,
                   claude_outcome, post_returncode, post_failures, err_named>>
    /\ UNCHANGED lvars

\* step 7: post-fix test run and comparison with the baseline
RunPostTests(ids) ==
    /\ pc = "r_post"
    /\ IF test_runner = None
       THEN /\ ResolveEnds(NoTestSuite(attempt), "attempt")
            /\ UNCHANGED <<calls, post_returncode, post_failures, err_named,
                           layer_report>>
       ELSE \E t \in TestRuns(ids) :
            /\ calls' = Append(calls, "test")
            /\ layer_report' = run_with_timeout(t.timed_out)
            /\ IF t.timed_out
               THEN /\ ResolveEnds(ExceptHandler(attempt), "attempt")
                    /\ UNCHANGED <<post_returncode, post_failures, err_named>>
               ELSE LET v == PostTestVerdict(test_runner, t.returncode, t.failed,
                                             baseline_returncode, baseline_failures)
                    IN /\ post_returncode' = t.returncode
                       /\ post_failures' = t.failed
                       /\ err_named' = v.named
                       /\ ResolveEnds(Terminal(attempt, v.status, v.outcome),
                                      IF v.raises THEN "TestsFailedError" ELSE "attempt")
    /\ UNCHANGED <<ovars, avars, test_runner, baseline_returncode, baseline_failures,
                   claude_outcome, has_changes>>
    /\ UNCHANGED lvars

ResolvePostTests == RunPostTests(TestIds)

PipelinePostTests == RunPostTests(PipelineIds)

\* ------------------------------------------- run_pipeline, steps 2b and 2c
\* variant: the loop moves on past the candidate that follows
NextCandidate_Skip(status) ==
    /\ results' = Append(results, status)
    /\ idx' = idx + 2
    /\ attempt' = NoAttempt
    /\ persisted' = <<>>
    /\ calls' = <<>>
    /\ aret' = None
    /\ analysis' = NoAnalysis
    /\ inserted' = FALSE
    /\ a_claude' = NoAgent

NextCandidate(status) ==
    /\ results' = Append(results, status)
    /\ idx' = idx + 1
    /\ attempt' = NoAttempt
    /\ persisted' = <<>>
    /\ calls' = <<>>
    /\ aret' = None
    /\ analysis' = NoAnalysis
    /\ inserted' = FALSE
    /\ a_claude' = NoAgent

\* the try/except around resolve_issue: where run_pipeline goes next
\* variant: a budget-exceeded resolution is treated like any other failure
ResolveRoute_Continue(ret) ==
    IF ret = "attempt" THEN "publish" ELSE "gate"

\* variant: an Attempt whose tests failed still goes on to publication
ResolveRoute_TestsFailedPublishes(ret) ==
    IF ret \in {"attempt", "TestsFailedError"} THEN "publish"
    ELSE IF ret = "BudgetExceededError" THEN "done"
    ELSE "gate"

ResolveRoute(ret) ==
    IF ret = "attempt" THEN "publish"
    ELSE IF ret = "BudgetExceededError" THEN "done"
    ELSE "gate"

HandleResolve ==
    /\ pc = "resolved"
    /\ pc' = ResolveRoute(rret)
    /\ IF rret = "attempt"
       THEN /\ summary' = [summary EXCEPT
                             !.issues_attempted = @ + 1,
                             !.total_cost_usd =
                                 @ + (IF attempt.cost_usd = Absent THEN 0
                                      ELSE attempt.cost_usd)]
            /\ UNCHANGED <<results, idx, attempt, persisted, calls, avars>>
       ELSE IF rret = "BudgetExceededError"
       THEN /\ summary' = [summary EXCEPT !.budget_exhausted = TRUE,
                                          !.failures = @ + 1]
            /\ results' = Append(results, "budget_exceeded")
            /\ UNCHANGED <<idx, attempt, persisted, calls, avars>>
       ELSE /\ summary' = [summary EXCEPT !.failures = @ + 1]
            /\ NextCandidate(IF rret = "TestsFailedError" THEN "tests_failed"
                             ELSE "resolution_failed")
    /\ ResolverLocalsCleared
    /\ rret' = None
    /\ err_named' = {}
    /\ UNCHANGED <<n, dry_run, session_budget, analyze_calls, resolve_calls,
                   submit_calls, pr_urls>>
    /\ UNCHANGED lvars

\* variant: every Attempt that was returned is published
Publishable_AnyOutcome(outcome) == outcome # None

Publishable(outcome) == outcome \in {"pr_submitted", "untested"}

\* step 2c: submit_pr for a publishable outcome
Publish ==
    /\ pc = "publish"
    /\ pc' = "gate"
    /\ IF Publishable(attempt.outcome)
       THEN /\ submit_calls' = submit_calls \cup {idx}
            /\ \E r \in IF dry_run THEN {"none"} ELSE {"url", "none", "raise"} :
                /\ pr_urls' = IF r = "url" THEN pr_urls \cup {idx} ELSE pr_urls
                /\ summary' = [summary EXCEPT
                                 !.prs_submitted = @ + (IF r = "url" THEN 1 ELSE 0),
                                 !.failures = @ + (IF r = "raise" THEN 1 ELSE 0)]
                /\ NextCandidate(IF r = "raise" THEN "pr_failed" ELSE "success")
       ELSE /\ summary' = [summary EXCEPT !.failures = @ + 1]
            /\ NextCandidate("failed")
            /\ UNCHANGED <<submit_calls, pr_urls>>
    /\ UNCHANGED <<n, dry_run, session_budget, analyze_calls, resolve_calls,
                   rlocals, rret, err_named>>
    /\ UNCHANGED lvars

Next ==
    \/ Scan
    \/ BudgetGate
    \/ AnalyzeIssue
    \/ HandleAnalysis
    \/ ResolveStart
    \/ ResolveDryRun
    \/ ResolveSetup
    \/ PipelineBaseline
    \/ ResolveInvoke
    \/ ResolveDiff
    \/ PipelinePostTests
    \/ HandleResolve
    \/ Publish

Spec == Init /\ [][Next]_vars

\* One resolve_issue call on its own (as the `resolve` command makes it),
\* with the full range of test results.
AcceptedAnalysis == [rating |-> "solvable", confidence |-> 100, cost_usd |-> 0]

InitResolve ==
    /\ pc = "r_start"
    /\ n = 1
    /\ idx = 1
    /\ dry_run \in BOOLEAN
    /\ session_budget \in Budgets
    /\ summary = [PipelineResult EXCEPT !.issues_scanned = 1, !.issues_analyzed = 1]
    /\ results = <<>>
    /\ analyze_calls = {1}
    /\ resolve_calls = {}
    /\ submit_calls = {}
    /\ pr_urls = {}
    /\ aret = "ok"
    /\ analysis = AcceptedAnalysis
    /\ attempt = NoAttempt
    /\ persisted = <<>>
    /\ calls = <<>>
    /\ test_runner = None
    /\ baseline_returncode = 0
    /\ baseline_failures = {}
    /\ claude_outcome = None
    /\ has_changes = None
    /\ post_returncode = 0
    /\ post_failures = {}
    /\ rret = None
    /\ err_named = {}
    /\ inserted = FALSE
    /\ a_claude = NoAgent
    /\ layer_report = None
    /\ LayerIdle

NextResolve ==
    \/ ResolveStart
    \/ ResolveDryRun
    \/ ResolveSetup
    \/ ResolveBaseline
    \/ ResolveInvoke
    \/ ResolveDiff
    \/ ResolvePostTests

SpecResolve == InitResolve /\ [][NextResolve]_vars

\* the pipeline variables while only a parser or invocation-layer call runs
PipelineIdle ==
    /\ n = 0
    /\ idx = 1
    /\ dry_run = FALSE
    /\ session_budget = MaxBudget
    /\ summary = PipelineResult
    /\ results = <<>>
    /\ analyze_calls = {}
    /\ resolve_calls = {}
    /\ submit_calls = {}
    /\ pr_urls = {}
    /\ aret = None
    /\ analysis = NoAnalysis
    /\ inserted = FALSE
    /\ a_claude = NoAgent
    /\ attempt = NoAttempt
    /\ persisted = <<>>
    /\ calls = <<>>
    /\ test_runner = None
    /\ baseline_returncode = 0
    /\ baseline_failures = {}
    /\ claude_outcome = None
    /\ has_changes = None
    /\ post_returncode = 0
    /\ post_failures = {}
    /\ layer_report = None
    /\ rret = None
    /\ err_named = {}

\* One parse_response call, for every combination of its arguments.
ParseInputs ==
    [stdout : Stdouts({NoBody}, Meters),
     returncode : {TimeoutReturnCode, 0, 1},
     timeout_expired : BOOLEAN]

InitParse ==
    /\ pc = "parse"
    /\ p_in \in ParseInputs
    /\ p_out = NoParse
    /\ max_retries = 0
    /\ retry_attempt = 0
    /\ history = <<>>
    /\ retry_ret = NoProcess
    /\ DbIdle
    /\ PipelineIdle

ParseResponse ==
    /\ pc = "parse"
    /\ p_out' = parse_response(p_in.stdout, p_in.returncode, p_in.timeout_expired)
    /\ pc' = "parsed"
    /\ UNCHANGED <<ovars, avars, rlocals, rvars, p_in, max_retries,
                   retry_attempt, history, retry_ret, dvars>>

NextParse == ParseResponse

SpecParse == InitParse /\ [][NextParse]_vars

\* One run_with_retry call.
InitRetry ==
    /\ pc = "retry_loop"
    /\ max_retries \in 0..MaxRetries
    /\ retry_attempt = 0
    /\ history = <<>>
    /\ retry_ret = NoProcess
    /\ p_in = NoCall
    /\ p_out = NoParse
    /\ DbIdle
    /\ PipelineIdle

\* one pass through the body of the for loop
RetryIteration ==
    /\ pc = "retry_loop"
    /\ \E result \in Executions :
        /\ history' = Append(history, result)
        /\ IF result.timed_out
           THEN /\ pc' = "retry_raised"
                /\ UNCHANGED <<retry_attempt, retry_ret>>
           ELSE IF result.returncode = 0
           THEN /\ pc' = "retry_returned"
                /\ retry_ret' = result
                /\ UNCHANGED retry_attempt
           ELSE IF ShouldRetry(result, retry_attempt, max_retries)
           THEN /\ retry_attempt' = retry_attempt + 1
                /\ IF retry_attempt + 1 <= max_retries
                   THEN /\ pc' = "retry_loop"
                        /\ UNCHANGED retry_ret
                   ELSE /\ pc' = "retry_returned"
                        /\ retry_ret' = result
           ELSE /\ pc' = "retry_returned"
                /\ retry_ret' = result
                /\ UNCHANGED retry_attempt
    /\ UNCHANGED <<ovars, avars, rlocals, rvars, p_in, p_out, max_retries, dvars>>

NextRetry == RetryIteration

SpecRetry == InitRetry /\ [][NextRetry]_vars

\* the loop body always runs to its end: the sleep between retries is finite
SpecRetryFair == SpecRetry /\ WF_vars(RetryIteration)

\* The repository over one database: any sequence of upsert_issue,
\* insert_analysis and insert_attempt calls.
IssueIds == 1..MaxIssueObjects

\* every Issue object gets an id of its own when it is built; several
\* objects name the same (repo_owner, repo_name, number)
KeyOf(id) == ((id - 1) % MaxKeys) + 1

IssueObjects == {[id |-> i, key |-> KeyOf(i)] : i \in IssueIds}

\* INSERT OR REPLACE: the rows that conflict with the new one on the primary
\* key or on UNIQUE(repo_owner, repo_name, number) are deleted
Replaced(table, row) ==
    {r \in table : r.id # row.id /\ r.key # row.key} \cup {row}

\* issue_id REFERENCES issues(id), enforced by PRAGMA foreign_keys=ON
ForeignKeysHold(table, refs) ==
    \A c \in refs : \E r \in table : r.id = c.issue_id

issue_exists(key) == \E r \in issues : r.key = key

InitRepo ==
    /\ pc = "repo"
    /\ LayerIdle
    /\ PipelineIdle

UpsertIssue ==
    /\ pc = "repo"
    /\ \E issue \in IssueObjects :
        LET after == Replaced(issues, issue)
            ok == ForeignKeysHold(after, children)
        IN /\ issues' = IF ok THEN after ELSE issues
           /\ db_ret' = [op |-> "upsert_issue", key |-> issue.key,
                         was_stored |-> issue_exists(issue.key),
                         raised |-> ~ok]
    /\ UNCHANGED <<pc, ovars, avars, rlocals, rvars, p_in, p_out, max_retries,
                   retry_attempt, history, retry_ret, children, offered, scan_ret>>

InsertAnalysis ==
    /\ pc = "repo"
    /\ \E issue_id \in IssueIds :
        LET ok == \E r \in issues : r.id = issue_id
        IN /\ children' = IF ok
                          THEN children \cup {[table |-> "analyses", issue_id |-> issue_id]}
                          ELSE children
           /\ db_ret' = [op |-> "insert_analysis", key |-> KeyOf(issue_id),
                         was_stored |-> ok, raised |-> ~ok]
    /\ UNCHANGED <<pc, ovars, avars, rlocals, rvars, p_in, p_out, max_retries,
                   retry_attempt, history, retry_ret, issues, offered, scan_ret>>

InsertAttempt ==
    /\ pc = "repo"
    /\ \E issue_id \in IssueIds :
        LET ok == \E r \in issues : r.id = issue_id
        IN /\ children' = IF ok
                          THEN children \cup {[table |-> "attempts", issue_id |-> issue_id]}
                          ELSE children
           /\ db_ret' = [op |-> "insert_attempt", key |-> KeyOf(issue_id),
                         was_stored |-> ok, raised |-> ~ok]
    /\ UNCHANGED <<pc, ovars, avars, rlocals, rvars, p_in, p_out, max_retries,
                   retry_attempt, history, retry_ret, issues, offered, scan_ret>>

\* one search: up to three results per candidate asked for, any key any
\* number of times
RawResults(limit) ==
    UNION {[1..len -> 1..MaxKeys] : len \in 0..(IF 3 * limit < MaxRawResults THEN 3 * limit ELSE MaxRawResults)}

\* parse_search_result: the Issue object built for a search result
SearchResultIssue(key) == [id |-> key, key |-> key]

\* variant: search results already in the database are not skipped
SkipDuplicate_Never(table, key) == FALSE

\* the deduplication test of the scan loop
SkipDuplicate(table, key) == \E r \in table : r.key = key

\* the scan loop from result i on: the table and the candidates it ends with
RECURSIVE ScanLoop(_, _, _, _, _)
ScanLoop(raw, i, table, candidates, limit) ==
    IF i > Len(raw)
    THEN [table |-> table, candidates |-> candidates]
    ELSE IF SkipDuplicate(table, raw[i])
    THEN ScanLoop(raw, i + 1, table, candidates, limit)
    ELSE LET issue == SearchResultIssue(raw[i])
             stored == Replaced(table, issue)
             found == Append(candidates, issue)
         IN IF Len(found) >= limit
            THEN [table |-> stored, candidates |-> found]
            ELSE ScanLoop(raw, i + 1, stored, found, limit)

scan_issues(raw, table, limit) == ScanLoop(raw, 1, table, <<>>, limit)

ScanIssues ==
    /\ pc = "repo"
    /\ \E limit \in 1..MaxLimit :
        \E r \in {scan_issues(raw, issues, limit) : raw \in RawResults(limit)} :
            /\ issues' = r.table
            /\ scan_ret' = [limit |-> limit, candidates |-> r.candidates]
            /\ offered' = offered \o [i \in 1..Len(r.candidates) |-> r.candidates[i].key]
            /\ db_ret' = [op |-> "scan_issues", key |-> 0,
                          was_stored |-> FALSE, raised |-> FALSE]
    /\ UNCHANGED <<pc, ovars, avars, rlocals, rvars, p_in, p_out, max_retries,
                   retry_attempt, history, retry_ret, children>>

\* Scans of one store, between them the issues being fetched again by the
\* resolve command and analysed.
NextScan ==
    \/ ScanIssues
    \/ UpsertIssue
    \/ InsertAnalysis

SpecScan == InitRepo /\ [][NextScan]_vars

NextRepo ==
    \/ UpsertIssue
    \/ InsertAnalysis
    \/ InsertAttempt

SpecRepo == InitRepo /\ [][NextRepo]_vars

TypeOK ==
    /\ pc \in {"scan", "gate", "analyze", "analyzed", "r_start", "r_dry", "r_setup",
               "r_baseline", "r_invoke", "r_diff", "r_post", "resolved", "publish",
               "done", "crashed", "parse", "parsed", "retry_loop",
               "retry_returned", "retry_raised", "repo"}
    /\ issues \subseteq IssueObjects
    /\ children \subseteq [table : {"analyses", "attempts"}, issue_id : IssueIds]
    /\ layer_report \in {None, Completed, TimedOutFlag, TimeoutExpired}
    /\ retry_attempt \in 0..(MaxRetries + 1)
    /\ Len(history) <= MaxRetries + 2
    /\ attempt.status \in AttemptStatus \cup {None}
    /\ attempt.outcome \in OutcomeCategory \cup {None}

\* ------------------------------------------------------------ properties
LastResult == IF results = <<>> THEN None ELSE results[Len(results)]

LastPersisted == persisted[Len(persisted)]

IsTerminal(status) == status \in {"succeeded", "failed"}

\* a test command was run after the agent was invoked
TestAfterAgent ==
    \E i, j \in 1..Len(calls) : i < j /\ calls[i] = "agent" /\ calls[j] = "test"

\* the post-fix run exited non-zero and not with pytest's zero-tests code
PostRunFailed ==
    /\ pc = "resolved"
    /\ post_returncode # 0
    /\ ~(test_runner = "pytest" /\ post_returncode = PytestNoTestsCollected)

new_failures == post_failures \ baseline_failures

\* C1: an exception raised by analyze_issue or resolve_issue for one issue
\* (other than the resolver's budget-exceeded error) never leaves
\* run_pipeline: the issue is recorded and the loop goes on to the next
\* candidate.
C1_ExceptionsIsolated ==
    [][((pc = "analyzed" /\ aret # "ok")
        \/ (pc = "resolved" /\ rret \notin {"attempt", "BudgetExceededError"}))
       => (/\ pc' = "gate"
           /\ idx' = idx + 1
           /\ Len(results') = Len(results) + 1)]_vars

\* C2: when the budget gate finds session budget minus accumulated cost <= 0
\* at the start of a candidate's iteration, the run stops with
\* budget_exhausted set and without analysing or resolving that candidate;
\* a stopped run makes no further call.
C2_BudgetGateStopsRun ==
    [][/\ (pc = "gate" /\ idx <= n /\ session_budget - summary.total_cost_usd <= 0)
          => (/\ pc' = "done"
              /\ summary'.budget_exhausted
              /\ idx \notin analyze_calls' \cup resolve_calls')
       /\ (pc = "done")
          => (analyze_calls' = analyze_calls /\ resolve_calls' = resolve_calls)]_vars

C2_Witness ==
    /\ pc = "done"
    /\ summary.budget_exhausted
    /\ session_budget = 1
    /\ summary.total_cost_usd = 2
    /\ n = 2
    /\ idx = 2
    /\ analyze_calls = {1}
    /\ resolve_calls = {1}

\* C3: when resolve_issue raises the budget-exceeded error the run stops at
\* once: budget_exhausted becomes true, failures grows by exactly one and no
\* further candidate is analysed, resolved or published.
C3_BudgetExceededStopsRun ==
    [][(pc = "resolved" /\ rret = "BudgetExceededError")
       => (/\ pc' = "done"
           /\ summary'.budget_exhausted
           /\ summary'.failures = summary.failures + 1
           /\ analyze_calls' = analyze_calls
           /\ resolve_calls' = resolve_calls
           /\ submit_calls' = submit_calls)]_vars

C3_Witness ==
    /\ pc = "done"
    /\ LastResult = "budget_exceeded"
    /\ summary.budget_exhausted
    /\ summary.failures = 1
    /\ idx < n
    /\ idx \in resolve_calls
    /\ idx \notin submit_calls

\* C4: in every persisted version of an Attempt, the outcome is set if and
\* only if the status is succeeded or failed.
C4_OutcomeIffTerminal ==
    \A i \in 1..Len(persisted) :
        (persisted[i].outcome # None) <=> IsTerminal(persisted[i].status)

C4_Witness ==
    /\ pc = "resolved"
    /\ claude_outcome = "process_error"
    /\ Len(persisted) = 3
    /\ persisted[2].outcome = None
    /\ persisted[3].status = "failed"
    /\ persisted[3].outcome # None

\* C5 as stated: the first persisted version of every Attempt has status
\* pending.
C5_FirstPersistedPending ==
    (persisted # <<>>) => persisted[1].status = "pending"

\* C5 as amended: an Attempt is first persisted in_progress (never pending),
\* every persisted version but the last is in_progress, the persisted record
\* always carries the status and outcome of the in-memory Attempt when a
\* pipeline step ends, and a finished resolution has persisted a terminal
\* status with an outcome.
C5_InProgressThenTerminal ==
    /\ \A i \in 1..Len(persisted) :
          /\ persisted[i].status # "pending"
          /\ (i < Len(persisted)) => persisted[i].status = "in_progress"
    /\ (persisted # <<>>) =>
          /\ persisted[1].status = "in_progress"
          /\ LastPersisted.status = attempt.status
          /\ LastPersisted.outcome = attempt.outcome
    /\ (pc = "resolved") =>
          /\ IsTerminal(LastPersisted.status)
          /\ LastPersisted.outcome \in OutcomeCategory

C5_Witness ==
    /\ pc = "resolved"
    /\ Len(persisted) = 3
    /\ persisted[1].status = "in_progress"
    /\ persisted[2].status = "in_progress"
    /\ persisted[3].status = "succeeded"
    /\ persisted[3].outcome = "pr_submitted"

\* C6: when the parsed agent outcome is process_error or parse_error the
\* Attempt ends failed with that same value as its outcome and is returned
\* without raising.
C6_AgentErrorOutcomeKept ==
    (pc = "resolved" /\ claude_outcome \in {"process_error", "parse_error"})
    => (/\ attempt.status = "failed"
        /\ attempt.outcome = claude_outcome
        /\ LastPersisted = attempt
        /\ rret = "attempt")

\* C7 as stated: a failed post-fix run with new failures persists
\* failed/tests_failed and raises the tests-failed error naming every
\* identifier of new_failures.
C7_AllNewFailuresNamed ==
    (PostRunFailed /\ new_failures # {})
    => (/\ LastPersisted.status = "failed"
        /\ LastPersisted.outcome = "tests_failed"
        /\ rret = "TestsFailedError"
        /\ err_named = new_failures)

\* C7 as amended: a failed post-fix run with new failures persists
\* failed/tests_failed and raises the tests-failed error, which names the
\* new failures in sorted order up to the first five of them (all of them
\* when there are at most five).
C7_FirstFiveNewFailuresNamed ==
    (PostRunFailed /\ new_failures # {})
    => (/\ LastPersisted.status = "failed"
        /\ LastPersisted.outcome = "tests_failed"
        /\ rret = "TestsFailedError"
        /\ err_named \subseteq new_failures
        /\ Cardinality(err_named) =
              (IF Cardinality(new_failures) < NamedLimit
               THEN Cardinality(new_failures) ELSE NamedLimit)
        /\ \A x \in err_named : \A y \in new_failures \ err_named : x < y)

C7_Witness ==
    /\ PostRunFailed
    /\ baseline_failures = {}
    /\ post_failures = TestIds
    /\ rret = "TestsFailedError"
    /\ Cardinality(err_named) = NamedLimit
    /\ err_named # new_failures

\* C8 as stated: a post-fix run that exits non-zero with a non-empty failing
\* set contained in the baseline failing set ends pr_submitted/succeeded
\* without an error.
C8_PreExistingFailuresPass ==
    (/\ pc = "resolved"
     /\ post_returncode # 0
     /\ post_failures # {}
     /\ post_failures \subseteq baseline_failures)
    => (/\ attempt.outcome = "pr_submitted"
        /\ attempt.status = "succeeded"
        /\ rret = "attempt")

\* C8 as amended: the same, for a non-zero exit code other than pytest's
\* zero-tests-collected code 5 (which ends untested/succeeded instead).
C8_PreExistingFailuresPassUnlessNoTests ==
    (/\ PostRunFailed
     /\ post_failures # {}
     /\ post_failures \subseteq baseline_failures)
    => (/\ attempt.outcome = "pr_submitted"
        /\ attempt.status = "succeeded"
        /\ LastPersisted = attempt
        /\ rret = "attempt")

C8_Witness ==
    /\ PostRunFailed
    /\ post_failures = {1}
    /\ baseline_failures = {1, 2}
    /\ attempt.outcome = "pr_submitted"
    /\ attempt.status = "succeeded"

C10_EmptyDiffFails ==
    (pc = "resolved" /\ claude_outcome = "success" /\ has_changes = "no_changes")
    => (/\ attempt.status = "failed"
        /\ attempt.outcome = "empty_diff"
        /\ LastPersisted = attempt
        /\ rret = "attempt"
        /\ ~TestAfterAgent)

C10_Witness ==
    /\ pc = "resolved"
    /\ claude_outcome = "success"
    /\ has_changes = "no_changes"
    /\ test_runner = "pytest"
    /\ attempt.outcome = "empty_diff"
    /\ calls[Len(calls)] = "has_changes"

AgentInvocations == Cardinality({i \in 1..Len(calls) : calls[i] = "agent"})

\* C12: when the parsed agent outcome is budget_exceeded, the Attempt is
\* persisted failed/budget_exceeded and resolve_issue raises the
\* budget-exceeded error instead of returning the Attempt; the agent
\* invocation is the last external operation of the call (no diff check, no
\* post-fix test run).
C12_BudgetExceededRaised ==
    (pc = "resolved" /\ claude_outcome = "budget_exceeded")
    => (/\ LastPersisted.status = "failed"
        /\ LastPersisted.outcome = "budget_exceeded"
        /\ LastPersisted = attempt
        /\ rret = "BudgetExceededError"
        /\ calls[Len(calls)] = "agent"
        /\ has_changes = None
        /\ ~TestAfterAgent)

C12_Witness ==
    /\ pc = "resolved"
    /\ claude_outcome = "budget_exceeded"
    /\ rret = "BudgetExceededError"
    /\ attempt.cost_usd > 0
    /\ test_runner = "pytest"
    /\ LastPersisted.outcome = "budget_exceeded"

\* C13: when the agent invocation times out the Attempt ends
\* failed/timeout and is returned without raising; a resolve_issue call
\* invokes the agent at most once, and after a failed invocation the agent
\* invocation stays the last external operation of the call.
C13_TimeoutFailsOnce ==
    /\ AgentInvocations <= 1
    /\ (pc = "resolved" /\ claude_outcome = "timeout")
       => (/\ attempt.status = "failed"
           /\ attempt.outcome = "timeout"
           /\ LastPersisted = attempt
           /\ rret = "attempt")
    /\ (pc = "resolved" /\ claude_outcome \notin {None, "success"})
       => (AgentInvocations = 1 /\ calls[Len(calls)] = "agent")

C13_Witness ==
    /\ pc = "resolved"
    /\ claude_outcome = "timeout"
    /\ attempt.outcome = "timeout"
    /\ attempt.cost_usd = 0
    /\ AgentInvocations = 1
    /\ rret = "attempt"

\* C14: a command run through the invocation layer by resolve_issue
\* (install, baseline tests, agent, diff inspection, post-fix tests) that
\* times out comes back as a result carrying a timed-out flag: the
\* TimeoutExpired exception never reaches resolve_issue.
C14_TimeoutsReportedNotRaised ==
    layer_report # TimeoutExpired

LastExecution == history[Len(history)]

\* the command is executed again only after a non-zero, rate-limited result
\* and while fewer than max_retries retries have been made
RetryOnlyWhenRateLimited ==
    (Len(history') > Len(history) /\ history # <<>>)
    => (/\ ~LastExecution.timed_out
        /\ LastExecution.returncode # 0
        /\ LastExecution.rate_limited
        /\ Len(history) - 1 < max_retries)

\* a returned result is the most recent one, unmodified, and ended the loop
\* for one of the three stated reasons
RetryReturnsLastResult ==
    (pc = "retry_returned")
    => (/\ retry_ret = LastExecution
        /\ \/ retry_ret.returncode = 0
           \/ ~retry_ret.rate_limited
           \/ Len(history) = max_retries + 1)

\* a result ending the loop is returned at once: no further execution
RetryStopsOnFinalResult ==
    (/\ pc = "retry_loop"
     /\ history # <<>>)
    => (/\ LastExecution.returncode # 0
        /\ LastExecution.rate_limited
        /\ Len(history) <= max_retries)

ParsedCleanExit ==
    /\ pc = "parsed"
    /\ ~p_in.timeout_expired
    /\ p_in.returncode = 0

\* C16: when the invocation did not time out, exited 0 and stdout is not a
\* single JSON object (empty, not JSON, or a JSON array or scalar),
\* parse_response returns outcome parse_error and raises nothing.
C16_NonObjectIsParseError ==
    (ParsedCleanExit /\ p_in.stdout.kind # "object")
    => (p_out.outcome = "parse_error" /\ ~p_out.raised)

\* C17: for a result that did not time out, exited 0 and parsed as a JSON
\* object, the outcome is success when is_error is false (whatever the
\* cost), budget_exceeded when is_error is true and the cost is > 0, and
\* process_error when is_error is true and the cost is 0.
C17_ClassifiedByErrorAndCost ==
    (ParsedCleanExit /\ p_in.stdout.kind = "object")
    => (/\ ~p_out.raised
        /\ p_out.is_error = p_in.stdout.is_error
        /\ (~p_in.stdout.is_error) => p_out.outcome = "success"
        /\ (p_in.stdout.is_error /\ p_out.cost_usd > 0)
              => p_out.outcome = "budget_exceeded"
        /\ (p_in.stdout.is_error /\ p_out.cost_usd = 0)
              => p_out.outcome = "process_error")

C17_Witness ==
    /\ ParsedCleanExit
    /\ p_in.stdout.kind = "object"
    /\ p_in.stdout.is_error
    /\ p_in.stdout.cost_usd = Absent
    /\ p_in.stdout.total_cost_usd = MaxCost
    /\ p_out.outcome = "budget_exceeded"

\* the zeroed result of the first two classification steps
ZeroedError ==
    /\ ~p_out.raised
    /\ p_out.cost_usd = 0
    /\ p_out.duration_ms = 0
    /\ p_out.num_turns = 0
    /\ p_out.is_error

\* C18: with the timeout flag set the outcome is timeout whatever the exit
\* code and stdout are; otherwise with a non-zero exit code it is
\* process_error whatever stdout holds; in both cases cost, duration and
\* turn count are 0 and is_error is true.
C18_TimeoutThenExitCode ==
    /\ (pc = "parsed" /\ p_in.timeout_expired)
       => (p_out.outcome = "timeout" /\ ZeroedError)
    /\ (pc = "parsed" /\ ~p_in.timeout_expired /\ p_in.returncode # 0)
       => (p_out.outcome = "process_error" /\ ZeroedError)

C18_Witness ==
    /\ pc = "parsed"
    /\ p_in.timeout_expired
    /\ p_in.returncode = 0
    /\ p_in.stdout.kind = "object"
    /\ ~p_in.stdout.is_error
    /\ p_in.stdout.cost_usd = MaxCost
    /\ p_in.stdout.duration_ms = MaxMeter
    /\ p_in.stdout.num_turns = MaxMeter
    /\ p_out.outcome = "timeout"

\* the same stdout with its only cost moved from total_cost_usd to cost_usd
WithCostUsdOnly(stdout) ==
    [stdout EXCEPT !.cost_usd = stdout.total_cost_usd, !.total_cost_usd = Absent]

\* C19: a result object holding only total_cost_usd = v is parsed to the
\* same cost and the same outcome as the otherwise identical object holding
\* only cost_usd = v.
C19_TotalCostFallback ==
    (/\ pc = "parsed"
     /\ p_in.stdout.kind = "object"
     /\ p_in.stdout.cost_usd = Absent
     /\ p_in.stdout.total_cost_usd # Absent)
    => LET twin == parse_response(WithCostUsdOnly(p_in.stdout), p_in.returncode,
                                  p_in.timeout_expired)
       IN /\ p_out.cost_usd = twin.cost_usd
          /\ p_out.outcome = twin.outcome
          /\ ParsedCleanExit => p_out.cost_usd = p_in.stdout.total_cost_usd

C19_Witness ==
    /\ ParsedCleanExit
    /\ p_in.stdout.kind = "object"
    /\ p_in.stdout.cost_usd = Absent
    /\ p_in.stdout.total_cost_usd = MaxCost
    /\ ~p_in.stdout.is_error
    /\ p_out.cost_usd = MaxCost
    /\ p_out.outcome = "success"

\* analyze_issue has just ended, outside dry-run
AnalysisEnded == pc = "analyzed" /\ ~dry_run

\* the gate condition, on the Analysis that analyze_issue built
MeetsGate ==
    /\ analysis.rating \in {"solvable", "likely_solvable"}
    /\ analysis.confidence >= ConfidenceThreshold

\* C20: outside dry-run analyze_issue returns an Analysis only if its rating
\* is solvable or likely_solvable and its confidence is >= 0.7; every other
\* successfully parsed analysis makes it raise the rejected signal, and in
\* both cases the Analysis has been persisted by then.
C20_GateAcceptsOnlyAboveThreshold ==
    /\ (AnalysisEnded /\ aret = "ok") => (MeetsGate /\ inserted)
    /\ (AnalysisEnded /\ aret = "AnalysisRejectedError") => (~MeetsGate /\ inserted)
    /\ (AnalysisEnded /\ analysis.rating \in SolvabilityRating /\ aret # "ClaudeError")
       => (aret = (IF MeetsGate THEN "ok" ELSE "AnalysisRejectedError"))

C20_Witness ==
    /\ AnalysisEnded
    /\ aret = "ok"
    /\ analysis.rating = "likely_solvable"
    /\ analysis.confidence = ConfidenceThreshold
    /\ inserted

\* C21: when the analysis agent's outcome is not success, or its result
\* text holds no parsable JSON object, analyze_issue persists an Analysis
\* rated unsolvable and raises ClaudeError; it does not return an Analysis.
C21_FailedAnalysisRecordedAndRaised ==
    (/\ AnalysisEnded
     /\ \/ a_claude.outcome \in ClaudeOutcomes \ {"success"}
        \/ (a_claude.outcome = "success" /\ ~a_claude.json))
    => (/\ aret = "ClaudeError"
        /\ inserted
        /\ analysis.rating = "unsolvable"
        /\ analysis.confidence = 0)

C21_Witness ==
    /\ AnalysisEnded
    /\ a_claude.outcome = "success"
    /\ ~a_claude.json
    /\ aret = "ClaudeError"
    /\ inserted
    /\ analysis.rating = "unsolvable"
    /\ analysis.cost_usd = MaxCost

\* run_pipeline moves on to the next candidate without resolving or
\* publishing the current one
ContinuesWithNext ==
    /\ pc' = "gate"
    /\ idx' = idx + 1
    /\ idx \notin resolve_calls'
    /\ idx \notin submit_calls'

\* a candidate left behind is never resolved or published later: calls are
\* only ever made for the current candidate, and the index never goes back
CallsOnlyForCurrent ==
    /\ idx' >= idx
    /\ (resolve_calls' \ resolve_calls) \subseteq {idx}
    /\ (submit_calls' \ submit_calls) \subseteq {idx}

\* C22: when analyze_issue raises the rejected signal, run_pipeline leaves
\* failures, issues_analyzed, issues_attempted and prs_submitted as they
\* are, makes no resolve_issue or submit_pr call for the candidate and goes
\* on to the next one; a ClaudeError from analysis adds one to failures and
\* goes on likewise.
C22_RejectedIsNotAFailure ==
    [][/\ CallsOnlyForCurrent
       /\ (pc = "analyzed" /\ aret = "AnalysisRejectedError")
          => (/\ ContinuesWithNext
              /\ summary'.failures = summary.failures
              /\ summary'.issues_analyzed = summary.issues_analyzed
              /\ summary'.issues_attempted = summary.issues_attempted
              /\ summary'.prs_submitted = summary.prs_submitted)
       /\ (pc = "analyzed" /\ aret = "ClaudeError")
          => (/\ ContinuesWithNext
              /\ summary'.failures = summary.failures + 1)]_vars

C22_Witness ==
    /\ pc = "analyzed"
    /\ idx = 2
    /\ results = <<"rejected">>
    /\ summary.failures = 0
    /\ summary.issues_analyzed = 0
    /\ analyze_calls = {1, 2}
    /\ resolve_calls = {}
    /\ aret = "ClaudeError"

\* C23: when resolve_issue raises the tests-failed error, run_pipeline adds
\* exactly one to failures, leaves issues_attempted as it is, makes no
\* submit_pr call for the candidate and goes on to the next one.
C23_TestsFailedCountedAndContinues ==
    [][/\ (submit_calls' \ submit_calls) \subseteq {idx}
       /\ idx' >= idx
       /\ (pc = "resolved" /\ rret = "TestsFailedError")
          => (/\ pc' = "gate"
              /\ idx' = idx + 1
              /\ idx \notin submit_calls'
              /\ summary'.failures = summary.failures + 1
              /\ summary'.issues_attempted = summary.issues_attempted
              /\ summary'.prs_submitted = summary.prs_submitted)]_vars

C23_Witness ==
    /\ pc = "analyzed"
    /\ idx = 2
    /\ results = <<"tests_failed">>
    /\ summary.failures = 1
    /\ summary.issues_attempted = 0
    /\ resolve_calls = {1}
    /\ submit_calls = {}
    /\ analyze_calls = {1, 2}

\* the Attempt at hand has outcome pr_submitted or untested
OutcomePublishable == attempt.outcome \in {"pr_submitted", "untested"}

\* C24: submit_pr is invoked for a candidate exactly when resolve_issue
\* returned an Attempt (did not raise) whose outcome is pr_submitted or
\* untested; for any other returned outcome nothing is published and
\* failures grows by one; prs_submitted grows, by one, only when submit_pr
\* returned a PR URL.
C24_PublishIffPublishableOutcome ==
    [][/\ (pc = "resolved") => ((pc' = "publish") <=> (rret = "attempt"))
       /\ (pc' = "publish") => (pc = "resolved")
       /\ (submit_calls' # submit_calls)
          => (/\ pc = "publish"
              /\ OutcomePublishable
              /\ submit_calls' = submit_calls \cup {idx})
       /\ (pc = "publish" /\ OutcomePublishable) => (idx \in submit_calls')
       /\ (pc = "publish" /\ ~OutcomePublishable)
          => (/\ submit_calls' = submit_calls
              /\ pr_urls' = pr_urls
              /\ summary'.failures = summary.failures + 1
              /\ summary'.prs_submitted = summary.prs_submitted)
       /\ (summary'.prs_submitted # summary.prs_submitted)
          => (/\ summary'.prs_submitted = summary.prs_submitted + 1
              /\ idx \in submit_calls'
              /\ idx \in pr_urls' \ pr_urls)]_vars

C24_Witness ==
    /\ pc = "gate"
    /\ results = <<"failed", "success">>
    /\ resolve_calls = {1, 2}
    /\ submit_calls = {2}
    /\ pr_urls = {2}
    /\ summary.prs_submitted = 1
    /\ summary.failures = 1

\* run_pipeline is inside, or just past, the resolve_issue call of the
\* current candidate
InResolveStep ==
    pc \in {"r_start", "r_dry", "r_setup", "r_baseline", "r_invoke", "r_diff",
            "r_post", "resolved", "publish"}

\* C25: resolve_issue is invoked for a candidate only after analyze_issue
\* returned normally for that candidate in the same iteration, so only
\* with an Analysis that passed the acceptance gate.
C25_ResolveOnlyAfterAcceptedAnalysis ==
    /\ resolve_calls \subseteq analyze_calls
    /\ (InResolveStep \/ idx \in resolve_calls)
       => (/\ idx \in analyze_calls
           /\ aret = "ok"
           /\ inserted
           /\ MeetsGate)

C25_Witness ==
    /\ pc = "r_setup"
    /\ ~dry_run
    /\ idx = 2
    /\ results = <<"rejected">>
    /\ analyze_calls = {1, 2}
    /\ resolve_calls = {2}
    /\ analysis.confidence = ConfidenceThreshold

\* the rows of the issues table stored under a key
StoredUnder(key) == {r \in issues : r.key = key}

\* C26: upsert_issue for a key that is already stored does not raise and
\* leaves exactly one record for that key.
C26_UpsertStoredKeyIdempotent ==
    (db_ret.op = "upsert_issue" /\ db_ret.was_stored)
        => (/\ ~db_ret.raised
            /\ Cardinality(StoredUnder(db_ret.key)) = 1)

\* run_pipeline takes up the outcome of analyze_issue, which left an
\* Analysis record behind
TakesUpAnalysis == pc = "analyzed" /\ pc' # "analyzed" /\ inserted

\* run_pipeline takes up the outcome of resolve_issue, which left an Attempt
\* record behind
TakesUpAttempt == pc = "resolved" /\ pc' # "resolved" /\ attempt # NoAttempt

\* C27: total_cost_usd is the sum of the costs of every Analysis and every
\* Attempt produced during the run: whenever run_pipeline takes up an
\* Analysis or an Attempt, accepted or not, its cost is added to the total.
C27_TotalCostCountsEveryRecord ==
    [][/\ TakesUpAnalysis
          => summary'.total_cost_usd = summary.total_cost_usd + analysis.cost_usd
       /\ TakesUpAttempt
          => summary'.total_cost_usd
               = summary.total_cost_usd + GetOrZero(attempt.cost_usd)]_vars

\* resolve_issue is running for the current candidate
InsideResolve ==
    pc \in {"r_dry", "r_setup", "r_baseline", "r_invoke", "r_diff", "r_post"}

\* C28: candidates are processed one at a time in scan order: the calls
\* made so far are for the candidates before the current one and, at most,
\* the current one, every earlier candidate has its result entry, and an
\* Attempt is in_progress only while resolve_issue runs for the current
\* candidate, so no two Attempts of a run are in_progress together.
C28_OneCandidateAtATime ==
    /\ analyze_calls \in {1..(idx - 1), 1..idx}
    /\ resolve_calls \subseteq analyze_calls
    /\ submit_calls \subseteq resolve_calls
    /\ Len(results) \in {idx - 1, idx}
    /\ attempt.status = "in_progress" => (InsideResolve /\ idx \in resolve_calls)
    /\ pc \in {"resolved", "publish"}
         => (persisted # <<>> /\ IsTerminal(LastPersisted.status))
    /\ pc \in {"gate", "analyze", "analyzed", "r_start"}
         => (attempt = NoAttempt /\ persisted = <<>>)

C28_Witness ==
    /\ pc = "r_invoke"
    /\ idx = 2
    /\ attempt.status = "in_progress"
    /\ analyze_calls = {1, 2}
    /\ resolve_calls = {1, 2}
    /\ submit_calls = {1}
    /\ Len(results) = 1

\* the baseline run exited non-zero and no failing identifier was
\* extracted from its output
BaselineUnparsed == baseline_returncode # 0 /\ baseline_failures = {}

\* C29: an empty failure set extracted from a run that exited non-zero
\* means unknown on both sides of the comparison: after an unparsed
\* failing baseline the post-fix failures are not counted as regressions,
\* and an unparsed failing post-fix run after a passing baseline is not
\* counted as passing.
C29_EmptyExtractionIsUnknown ==
    PostRunFailed
        => (/\ (BaselineUnparsed /\ post_failures # {})
                  => (attempt.outcome # "tests_failed"
                      /\ rret # "TestsFailedError")
            /\ (baseline_returncode = 0 /\ post_failures = {})
                  => (attempt.outcome = "tests_failed"
                      /\ attempt.status = "failed"))

\* resolve_issue ended after a post-fix test run that came back with exit
\* code 0, the agent having succeeded and changed the workspace
PostRunPassed ==
    /\ pc = "resolved"
    /\ claude_outcome = "success"
    /\ has_changes = "changes"
    /\ test_runner # None
    /\ TestAfterAgent
    /\ layer_report = Completed
    /\ post_returncode = 0

\* C30: when the agent succeeded, the diff is non-empty, a test command
\* exists and the post-fix run exits 0, the Attempt ends succeeded with
\* outcome pr_submitted and is returned, whatever the baseline's exit code
\* and whatever identifiers were extracted from either run.
C30_PassingPostRunSubmits ==
    PostRunPassed
        => (/\ attempt.status = "succeeded"
            /\ attempt.outcome = "pr_submitted"
            /\ rret = "attempt"
            /\ LastPersisted = attempt)

C30_Witness ==
    /\ PostRunPassed
    /\ baseline_returncode = 1
    /\ baseline_failures = {1}
    /\ post_failures = {2}
    /\ attempt.outcome = "pr_submitted"

\* resolve_issue ended on a failure of fork, workspace creation, clone or
\* branch creation: that operation is the last one it made
SetupFailed ==
    /\ pc = "resolved"
    /\ calls # <<>>
    /\ calls[Len(calls)] \in {"fork", "workspace", "clone", "branch"}

\* C31: when fork, workspace creation, clone or fix-branch creation fails,
\* the Attempt ends failed with outcome resolution_failed, resolve_issue
\* returns it instead of raising, and no test run and no agent invocation
\* has taken place.
C31_SetupFailureIsResolutionFailed ==
    SetupFailed
        => (/\ attempt.status = "failed"
            /\ attempt.outcome = "resolution_failed"
            /\ rret = "attempt"
            /\ LastPersisted = attempt
            /\ \A i \in 1..Len(calls) : calls[i] \notin {"test", "agent"}
            /\ claude_outcome = None)

C31_Witness ==
    /\ SetupFailed
    /\ calls = <<"fork", "workspace", "clone">>
    /\ layer_report = TimeoutExpired
    /\ attempt.outcome = "resolution_failed"
    /\ Len(persisted) = 3

\* C32: in a dry run no agent is invoked by analyze_issue or resolve_issue,
\* no fork, clone, install or test run is made, submit_pr publishes
\* nothing, and resolve_issue returns an Attempt that is succeeded with
\* outcome pr_submitted and cost 0.
C32_DryRunHasNoSideEffects ==
    dry_run
        => (/\ calls = <<>>
            /\ a_claude = NoAgent
            /\ claude_outcome = None
            /\ layer_report = None
            /\ test_runner = None
            /\ pr_urls = {}
            /\ summary.prs_submitted = 0
            /\ pc = "resolved" => rret = "attempt"
            /\ pc \in {"resolved", "publish"}
                 => (/\ attempt.status = "succeeded"
                     /\ attempt.outcome = "pr_submitted"
                     /\ attempt.cost_usd = 0
                     /\ LastPersisted = attempt))

C32_Witness ==
    /\ dry_run
    /\ pc = "gate"
    /\ idx = 2
    /\ analyze_calls = {1}
    /\ resolve_calls = {1}
    /\ submit_calls = {1}
    /\ results = <<"success">>
    /\ pr_urls = {}

\* run_pipeline has returned its PipelineResult
Returned == pc = "done"

\* C33: whenever run_pipeline returns with the accumulated total_cost_usd at
\* or above the session budget, budget_exhausted is set, also when the
\* budget was reached while the last candidate was processed.
C33_ExhaustedBudgetIsFlagged ==
    (Returned /\ summary.total_cost_usd >= session_budget)
        => summary.budget_exhausted

\* the cost of an Attempt version, an unset cost counting as 0
CostOf(att) == GetOrZero(att.cost_usd)

\* C34: the cost of an Attempt never decreases over its lifetime: not from
\* one step of resolve_issue to the next, and not from one persisted
\* version to the next (an unset cost counting as 0).
C34_AttemptCostNeverDecreases ==
    [][/\ CostOf(attempt) <= CostOf(attempt')
       /\ \A i \in 1..(Len(persisted') - 1) :
             CostOf(persisted'[i]) <= CostOf(persisted'[i + 1])]_vars

C34_Witness ==
    /\ pc = "resolved"
    /\ Len(persisted) = 3
    /\ persisted[1].cost_usd = Absent
    /\ persisted[2].cost_usd = Absent
    /\ persisted[3].cost_usd = MaxCost
    /\ attempt.outcome = "empty_diff"

\* the persisted versions of the Attempt that carry a terminal status
TerminalVersions == {i \in 1..Len(persisted) : IsTerminal(persisted[i].status)}

\* C35: an Attempt becomes terminal exactly once: its status only ever
\* changes from in_progress to succeeded or failed, a version once
\* persisted is never rewritten, nothing changes after a terminal version
\* was persisted, and a finished resolve_issue call has persisted exactly
\* one terminal version.
C35_TerminalReachedOnce ==
    [][/\ (attempt.status # attempt'.status /\ attempt # NoAttempt)
            => (attempt.status = "in_progress" /\ IsTerminal(attempt'.status))
       /\ \A i \in 1..Len(persisted) :
             i <= Len(persisted') /\ persisted'[i] = persisted[i]
       /\ TerminalVersions # {}
            => (attempt' = attempt /\ persisted' = persisted)
       /\ Cardinality(TerminalVersions') = IF pc' = "resolved" THEN 1 ELSE 0]_vars

C35_Witness ==
    /\ pc = "resolved"
    /\ rret = "TestsFailedError"
    /\ Len(persisted) = 3
    /\ TerminalVersions = {3}
    /\ persisted[3].status = "failed"

\* the baseline run failed with an exit code that is the same as or worse
\* than the post-fix run's
BaselineAtLeastAsBad ==
    baseline_returncode # 0 /\ baseline_returncode >= post_returncode

\* C36: after a failing post-fix run from which no identifier was
\* extracted, the Attempt is succeeded/pr_submitted exactly when the
\* baseline failed with a signal at least as bad as the post-fix one, and
\* otherwise failed/tests_failed with the tests-failed error raised.
C36_UnparsedPostRunComparedWithBaseline ==
    (PostRunFailed /\ post_failures = {})
        => IF BaselineAtLeastAsBad
           THEN /\ attempt.status = "succeeded"
                /\ attempt.outcome = "pr_submitted"
                /\ rret = "attempt"
           ELSE /\ attempt.status = "failed"
                /\ attempt.outcome = "tests_failed"
                /\ rret = "TestsFailedError"

\* a terminal Attempt version is succeeded exactly when its outcome is one
\* that run_pipeline publishes
SucceededIffPublishable(att) ==
    IsTerminal(att.status) => ((att.status = "succeeded") <=> Publishable(att.outcome))

\* C37: every terminal Attempt produced by resolve_issue is succeeded if and
\* only if its outcome is pr_submitted or untested, so the submit_pr call
\* of run_pipeline is never made for an Attempt whose status is failed.
C37_SucceededIffPublishable ==
    /\ \A i \in 1..Len(persisted) : SucceededIffPublishable(persisted[i])
    /\ SucceededIffPublishable(attempt)
    /\ (pc = "publish" /\ Publishable(attempt.outcome)) => attempt.status = "succeeded"
    /\ (pc = "publish" /\ attempt.status = "failed") => attempt.outcome \in OutcomeCategory

C37_Witness ==
    /\ pc = "publish"
    /\ ~dry_run
    /\ attempt.status = "succeeded"
    /\ attempt.outcome = "untested"
    /\ idx = 2
    /\ results = <<"failed">>

\* the statuses of result entries that go with an increment of failures
FailureStatuses ==
    {"analysis_failed", "budget_exceeded", "tests_failed", "resolution_failed",
     "pr_failed", "failed"}

FailureEntries == {i \in 1..Len(results) : results[i] \in FailureStatuses}

\* C38: throughout a run prs_submitted <= issues_attempted <=
\* issues_analyzed <= issues_scanned; every candidate has at most one
\* result entry and at most one increment of failures, so failures <=
\* number of result entries <= issues_scanned; no result entry has status
\* pending.
C38_CountersOrdered ==
    /\ summary.prs_submitted <= summary.issues_attempted
    /\ summary.issues_attempted <= summary.issues_analyzed
    /\ summary.issues_analyzed <= summary.issues_scanned
    /\ summary.failures = Cardinality(FailureEntries)
    /\ summary.failures <= Len(results)
    /\ Len(results) <= summary.issues_scanned
    /\ Len(results) <= Cardinality(analyze_calls)
    /\ \A i \in 1..Len(results) :
          results[i] \in FailureStatuses \cup {"rejected", "success"}

C38_Witness ==
    /\ Returned
    /\ summary.issues_scanned = 2
    /\ summary.issues_analyzed = 1
    /\ summary.issues_attempted = 1
    /\ summary.prs_submitted = 1
    /\ summary.failures = 1
    /\ results = <<"analysis_failed", "success">>

\* C39: the budget gate is evaluated once per candidate, before its
\* analysis, and not again before resolution: an accepted analysis is
\* always followed by the resolve_issue call, also when its cost has
\* brought the accumulated cost to the session budget or above, so the
\* accumulated cost of a run can exceed the session budget.
C39_GateOnlyBeforeAnalysis ==
    [][/\ (pc' = "analyze")
          => (/\ pc = "gate"
              /\ idx \notin analyze_calls
              /\ ~BudgetGateStops(session_budget, summary.total_cost_usd))
       /\ (pc = "analyzed" /\ aret = "ok")
          => (/\ pc' = "r_start"
              /\ ~summary'.budget_exhausted)
       /\ (pc' = "r_start") => (pc = "analyzed" /\ aret = "ok")
       /\ (summary'.budget_exhausted /\ ~summary.budget_exhausted)
          => pc \in {"gate", "resolved"}]_vars

C39_Witness ==
    /\ pc = "publish"
    /\ ~dry_run
    /\ idx \in resolve_calls
    /\ summary.total_cost_usd > session_budget
    /\ ~summary.budget_exhausted
    /\ analysis.cost_usd >= session_budget

\* C40: over any sequence of scans of one store, every key is returned as
\* a candidate at most once, a scan returns at most `limit` candidates,
\* and every candidate returned is stored, so a later scan never offers a
\* key again, whatever was or was not done with it in between.
C40_ScanOffersEachKeyOnce ==
    /\ \A i, j \in 1..Len(offered) : offered[i] = offered[j] => i = j
    /\ Len(scan_ret.candidates) <= scan_ret.limit
    /\ \A i \in 1..Len(scan_ret.candidates) :
          issue_exists(scan_ret.candidates[i].key)
    /\ \A i \in 1..Len(offered) : issue_exists(offered[i])

C40_Witness ==
    /\ offered = <<2, 1>>
    /\ scan_ret.limit = 1
    /\ Len(scan_ret.candidates) = 1
    /\ scan_ret.candidates[1].key = 1
    /\ children = {}

====
